---- MODULE Spec2Model ----
(***************************************************************************)
(* Model of script.py, the PS2 serial-to-title renamer:                    *)
(*   fetch_json / build_ps2_title_mapping  (paginated catalog -> mapping)  *)
(*   pick_title                            (English title, else default)   *)
(*   sanitize_filename                     (strip Windows-illegal chars)   *)
(*   rename_ps2_files                      (directory pass)                *)
(*   main                                  (build, then rename)            *)
(* Python strings that the code inspects character by character are        *)
(* sequences of one-character strings; an optional value (a missing key or *)
(* None) is the empty tuple and a present value v is the tuple <<v>>.       *)
(***************************************************************************)
EXTENDS Integers, Sequences, FiniteSets, TLC

VARIABLES
    pc,         \* control position of the running function
    exc,        \* "" or the exception that unwound to the top level
    url,        \* build_ps2_title_mapping: local url
    data,       \* build_ps2_title_mapping: local data (the decoded page)
    idx,        \* build_ps2_title_mapping: position of the for loop in results
    mapping,    \* the serial -> title dict
    seen_ids,   \* build_ps2_title_mapping: local seen_ids
    requests,   \* the URLs passed to fetch_json, in order
    pages,      \* the pages fetch_json returned, in order
    platform,   \* "posix" or "nt": the os the interpreter runs on
    fs,         \* the current directory: entry name -> [kind, id]
    fs0,        \* the directory when the current rename pass began
    listing,    \* rename_ps2_files: the names iterdir() yields
    pos,        \* rename_ps2_files: position of the for loop in listing
    log,        \* the per-file console lines of rename_ps2_files
    run,        \* number of the current call of rename_ps2_files
    arg,        \* argument of the pure function under test
    ret         \* its results, in call order

vars == <<pc, exc, url, data, idx, mapping, seen_ids, requests, pages,
          platform, fs, fs0, listing, pos, log, run, arg, ret>>

buildVars == <<url, data, idx, seen_ids, requests, pages>>
dirVars == <<platform, fs, fs0, listing, pos, log, run>>
pureVars == <<arg, ret>>

----------------------------------------------------------------------------
(* Bounds of the model *)

MaxLen == 4         \* length of the generated sanitize_filename inputs
MaxTrans == 2       \* translations per name structure
MaxEntries == 2     \* entries the catalog returns, over all its pages
MaxRequests == 2    \* requests build_ps2_title_mapping may issue
MaxFiles == 2       \* entries of the working directory

----------------------------------------------------------------------------
(* Optional values and Python truthiness *)

Nothing == <<>>
Some(v) == <<v>>

\* x.get(key) or default
GetOr(opt, default) == IF Len(opt) = 0 THEN default
                       ELSE IF opt[1] = <<>> THEN default ELSE opt[1]

\* the lists over S of length at most n
RECURSIVE ListsUpTo(_, _)
ListsUpTo(S, n) ==
    IF n = 0 THEN {<<>>}
    ELSE LET L == ListsUpTo(S, n - 1)
         IN L \cup {Append(l, x) : l \in {t \in L : Len(t) = n - 1}, x \in S}

----------------------------------------------------------------------------
(* Characters and str methods *)

UpperSeq == <<"A","B","C","D","E","F","G","H","I","J","K","L","M",
              "N","O","P","Q","R","S","T","U","V","W","X","Y","Z">>
LowerSeq == <<"a","b","c","d","e","f","g","h","i","j","k","l","m",
              "n","o","p","q","r","s","t","u","v","w","x","y","z">>
UpperChars == {UpperSeq[i] : i \in 1..26}
DigitChars == {"0","1","2","3","4","5","6","7","8","9"}
Whitespace == {" ", "\t", "\n", "\r", "\f"}

Min(S) == CHOOSE m \in S : \A n \in S : m <= n
Max(S) == CHOOSE m \in S : \A n \in S : m >= n

\* str.lower()
LowerChar(c) == IF c \in UpperChars
                THEN LowerSeq[CHOOSE i \in 1..26 : UpperSeq[i] = c]
                ELSE c
Lower(s) == [i \in 1..Len(s) |-> LowerChar(s[i])]

\* str.strip(): drop the leading, then the trailing run of whitespace
RECURSIVE LStrip(_)
LStrip(s) == IF s = <<>> THEN <<>>
             ELSE IF Head(s) \in Whitespace THEN LStrip(Tail(s)) ELSE s
RECURSIVE RStrip(_)
RStrip(s) == IF s = <<>> THEN <<>>
             ELSE IF s[Len(s)] \in Whitespace
                  THEN RStrip(SubSeq(s, 1, Len(s) - 1)) ELSE s
Strip(s) == RStrip(LStrip(s))

\* sub in s
Contains(s, sub) ==
    \E i \in 0..(Len(s) - Len(sub)) : SubSeq(s, i + 1, i + Len(sub)) = sub

----------------------------------------------------------------------------
(* sanitize_filename *)

IllegalChars == {"<", ">", ":", "\"", "/", "\\", "|", "?", "*"}

\* re.sub(r'[<>:"/\\|?*]', '', name): scan left to right, drop each match
RECURSIVE SubIllegal(_)
SubIllegal(s) == IF s = <<>> THEN <<>>
                 ELSE IF Head(s) \in IllegalChars THEN SubIllegal(Tail(s))
                 ELSE <<Head(s)>> \o SubIllegal(Tail(s))

sanitize_filename_StripFirst(name) == SubIllegal(Strip(name))

sanitize_filename(name) == Strip(SubIllegal(name))

----------------------------------------------------------------------------
(* pick_title *)

sEnglish == <<"e","n","g","l","i","s","h">>

\* the for loop over translations, from position i on
RECURSIVE ScanTranslations(_, _, _)
ScanTranslations(trs, i, default_title) ==
    IF i > Len(trs) THEN default_title
    ELSE LET lang == Lower(GetOr(trs[i].language, <<>>))
             title_val == Strip(GetOr(trs[i].value, <<>>))
         IN IF title_val # <<>> /\ Contains(lang, sEnglish)
            THEN title_val
            ELSE ScanTranslations(trs, i + 1, default_title)

\* entry.name is Nothing or Some(record); its fields are optional too
EmptyName == [default_value |-> Nothing, translations |-> Nothing]

\* a variant that tests the raw value and trims only what it returns
RECURSIVE ScanRawValue(_, _, _)
ScanRawValue(trs, i, default_title) ==
    IF i > Len(trs) THEN default_title
    ELSE LET lang == Lower(GetOr(trs[i].language, <<>>))
             title_val == GetOr(trs[i].value, <<>>)
         IN IF title_val # <<>> /\ Contains(lang, sEnglish)
            THEN Strip(title_val)
            ELSE ScanRawValue(trs, i + 1, default_title)

pick_title_RawValue(entry) ==
    LET name_info == IF Len(entry.name) = 0 THEN EmptyName ELSE entry.name[1]
        default_title == Strip(GetOr(name_info.default_value, <<>>))
        trs == IF Len(name_info.translations) = 0 THEN <<>>
               ELSE name_info.translations[1]
    IN ScanRawValue(trs, 1, default_title)

pick_title(entry) ==
    LET name_info == IF Len(entry.name) = 0 THEN EmptyName ELSE entry.name[1]
        default_title == Strip(GetOr(name_info.default_value, <<>>))
        trs == IF Len(name_info.translations) = 0 THEN <<>>
               ELSE name_info.translations[1]
    IN ScanTranslations(trs, 1, default_title)

----------------------------------------------------------------------------
(* Idle values of the variables a specification does not use *)

IdleBuild == /\ url = Nothing /\ data = Nothing /\ idx = 0
             /\ seen_ids = {} /\ requests = <<>> /\ pages = <<>>
IdleDir == /\ platform = "posix" /\ fs = <<>> /\ fs0 = <<>>
           /\ listing = <<>> /\ pos = 0 /\ log = <<>> /\ run = 0
IdlePure == arg = Nothing /\ ret = <<>>

----------------------------------------------------------------------------
(* sanitize_filename applied to generated strings, then to its own output *)

SanAlphabet == {"a", " ", ":", "?"}

\* the strings over alphabet A of length at most n
RECURSIVE StringsUpTo(_, _)
StringsUpTo(A, n) ==
    IF n = 0 THEN {<<>>}
    ELSE LET S == StringsUpTo(A, n - 1)
         IN S \cup {Append(s, c) : s \in {t \in S : Len(t) = n - 1}, c \in A}

\* "My: Game? / Title*"
sMyGameTitle == <<"M","y",":"," ","G","a","m","e","?"," ","/"," ",
                  "T","i","t","l","e","*">>
\* "My Game  Title"
sMyGameTitleClean == <<"M","y"," ","G","a","m","e"," "," ",
                       "T","i","t","l","e">>
\* the nine characters, in the order of the character class, with blanks
sAllIllegal == <<" ","<",">",":","\"","/","\\","|","?","*","\t">>

SanInputs == StringsUpTo(SanAlphabet, MaxLen) \cup {sMyGameTitle, sAllIllegal}

InitSan == /\ pc = "sanitize" /\ exc = "" /\ mapping = <<>>
           /\ IdleBuild /\ IdleDir
           /\ arg \in SanInputs /\ ret = <<>>

\* one call of sanitize_filename: on the input, then on the previous output
SanitizeCall ==
    /\ pc = "sanitize"
    /\ ret' = Append(ret, sanitize_filename(IF ret = <<>> THEN arg
                                            ELSE ret[Len(ret)]))
    /\ pc' = IF Len(ret) = 0 THEN "sanitize" ELSE "returned"
    /\ UNCHANGED <<exc, mapping, arg, buildVars, dirVars>>

NextSan == SanitizeCall

SpecSan == InitSan /\ [][NextSan]_vars

----------------------------------------------------------------------------
(* pick_title applied to generated name structures *)

sFrench == <<"F","r","e","n","c","h">>
sEnglishUS == <<"E","n","g","l","i","s","h"," ","(","U","S",")">>
sENGLISH == <<"E","N","G","L","I","S","H">>

PickLanguages == {Nothing, Some(sFrench), Some(sEnglishUS), Some(sENGLISH)}
PickValues == {Nothing, Some(<<" ">>), Some(<<"X">>), Some(<<" ","Y"," ">>)}
PickDefaults == {Nothing, Some(<<>>), Some(<<" ","Z"," ">>)}

Translations == [language : PickLanguages, value : PickValues]

PickNames ==
    {Nothing} \cup
    {Some([default_value |-> d, translations |-> t]) :
        d \in PickDefaults,
        t \in {Nothing} \cup {Some(l) : l \in ListsUpTo(Translations, MaxTrans)}}

InitPick == /\ pc = "pick_title" /\ exc = "" /\ mapping = <<>>
            /\ IdleBuild /\ IdleDir
            /\ arg \in {[name |-> n] : n \in PickNames} /\ ret = <<>>

PickCall ==
    /\ pc = "pick_title"
    /\ ret' = <<pick_title(arg)>>
    /\ pc' = "returned"
    /\ UNCHANGED <<exc, mapping, arg, buildVars, dirVars>>

NextPick == PickCall

SpecPick == InitPick /\ [][NextPick]_vars

----------------------------------------------------------------------------
(* build_ps2_title_mapping *)

START_URL == "https://api.serialstation.com/titles/?title_id_type=&title_id_number=&systems=b88ad131-ac80-458e-81a1-33ec9e75ea8a"

\* while url: None and "" end the loop
Truthy(u) == u # Nothing /\ u[1] # ""

\* mapping[serial] = title
SetItem(m, k, v) == [x \in DOMAIN m \cup {k} |-> IF x = k THEN v ELSE m[x]]

\* f"{t_type}-{t_num}"
FormatSerial(t_type, t_num) == t_type \o <<"-">> \o t_num

\* "PlayStation 2" in (entry.get("systems") or [])
HasPS2(entry) ==
    /\ entry.systems # Nothing
    /\ \E i \in 1..Len(entry.systems[1]) : entry.systems[1][i] = "PlayStation 2"

sgame == <<"g","a","m","e">>

\* a variant that marks the serial seen before it looks at the title
LoopBody_MarkSeenFirst(m, seen, entry) ==
    LET t_type == Strip(GetOr(entry.title_id_type, <<>>))
        t_num == Strip(GetOr(entry.title_id_number, <<>>))
        serial == FormatSerial(t_type, t_num)
        title == pick_title(entry)
        skip == [mapping |-> m, seen_ids |-> seen]
    IN IF ~HasPS2(entry) THEN skip
       ELSE IF Lower(GetOr(entry.content_type, <<>>)) # sgame THEN skip
       ELSE IF ~(t_type # <<>> /\ t_num # <<>>) THEN skip
       ELSE IF serial \in seen THEN skip
       ELSE IF title # <<>>
            THEN [mapping |-> SetItem(m, serial, title),
                  seen_ids |-> seen \cup {serial}]
            ELSE [mapping |-> m, seen_ids |-> seen \cup {serial}]

\* a variant without the blank-component test
LoopBody_NoBlankTest(m, seen, entry) ==
    LET t_type == Strip(GetOr(entry.title_id_type, <<>>))
        t_num == Strip(GetOr(entry.title_id_number, <<>>))
        serial == FormatSerial(t_type, t_num)
        title == pick_title(entry)
        skip == [mapping |-> m, seen_ids |-> seen]
    IN IF ~HasPS2(entry) THEN skip
       ELSE IF Lower(GetOr(entry.content_type, <<>>)) # sgame THEN skip
       ELSE IF serial \in seen THEN skip
       ELSE IF title # <<>>
            THEN [mapping |-> SetItem(m, serial, title),
                  seen_ids |-> seen \cup {serial}]
            ELSE skip

\* the body of "for entry in data.get("results", [])" for one entry
LoopBody(m, seen, entry) ==
    LET t_type == Strip(GetOr(entry.title_id_type, <<>>))
        t_num == Strip(GetOr(entry.title_id_number, <<>>))
        serial == FormatSerial(t_type, t_num)
        title == pick_title(entry)
        skip == [mapping |-> m, seen_ids |-> seen]
    IN IF ~HasPS2(entry) THEN skip
       ELSE IF Lower(GetOr(entry.content_type, <<>>)) # sgame THEN skip
       ELSE IF ~(t_type # <<>> /\ t_num # <<>>) THEN skip
       ELSE IF serial \in seen THEN skip
       ELSE IF title # <<>>
            THEN [mapping |-> SetItem(m, serial, title),
                  seen_ids |-> seen \cup {serial}]
            ELSE skip

\* data.get("results", []): a missing key gives [], a null stays None
ResultsOf(page) == IF page.results.kind = "list" THEN page.results.items
                   ELSE <<>>

\* the exceptions fetch_json lets through: urlopen, decode, json.loads
FetchErrors == {"URLError", "UnicodeDecodeError", "JSONDecodeError"}

\* lines 46-49: the locals of build_ps2_title_mapping
BuildEnter ==
    /\ pc = "main"
    /\ mapping' = <<>>
    /\ seen_ids' = {}
    /\ url' = Some(START_URL)
    /\ pc' = "while"
    /\ UNCHANGED <<exc, data, idx, requests, pages, dirVars, pureVars>>

\* the pages the catalog may answer with: up to n entries of E
NextUrls == {Nothing, Some(""), Some("page2"), Some(START_URL)}

PagesOf(E, n) ==
    {[results |-> [kind |-> "list", items |-> l], next |-> nx] :
        l \in ListsUpTo(E, n), nx \in NextUrls}
    \cup {[results |-> [kind |-> k, items |-> <<>>], next |-> nx] :
        k \in {"absent", "null"}, nx \in NextUrls}

\* the number of entries received so far
RECURSIVE CountEntries(_)
CountEntries(ps) ==
    IF ps = <<>> THEN 0 ELSE Len(ResultsOf(Head(ps))) + CountEntries(Tail(ps))

\* line 51, fetch_json(url) returns a page; a null "results" makes the for
\* statement of line 52 raise TypeError
FetchOk(E) ==
    /\ pc = "while" /\ Truthy(url)
    /\ Len(requests) < MaxRequests
    /\ \E page \in PagesOf(E, MaxEntries - CountEntries(pages)) :
          /\ requests' = Append(requests, url[1])
          /\ pages' = Append(pages, page)
          /\ data' = Some(page)
          /\ idx' = 1
          /\ IF page.results.kind = "null"
             THEN pc' = "raised" /\ exc' = "TypeError"
             ELSE pc' = "for" /\ exc' = exc
    /\ UNCHANGED <<url, mapping, seen_ids, dirVars, pureVars>>

\* a variant that swallows the error and leaves the loop
FetchFail_Swallowed ==
    /\ pc = "while" /\ Truthy(url)
    /\ Len(requests) < MaxRequests
    /\ \E e \in FetchErrors : exc' = e
    /\ requests' = Append(requests, url[1])
    /\ pc' = "built"
    /\ UNCHANGED <<url, data, idx, mapping, seen_ids, pages, dirVars, pureVars>>

\* line 51, fetch_json(url) raises: nothing in the program catches it
FetchFail ==
    /\ pc = "while" /\ Truthy(url)
    /\ Len(requests) < MaxRequests
    /\ \E e \in FetchErrors : exc' = e
    /\ requests' = Append(requests, url[1])
    /\ pc' = "raised"
    /\ UNCHANGED <<url, data, idx, mapping, seen_ids, pages, dirVars, pureVars>>

\* lines 52-67 for the entry at idx
ProcessEntry ==
    /\ pc = "for" /\ idx <= Len(ResultsOf(data[1]))
    /\ LET r == LoopBody(mapping, seen_ids, ResultsOf(data[1])[idx])
       IN mapping' = r.mapping /\ seen_ids' = r.seen_ids
    /\ idx' = idx + 1
    /\ UNCHANGED <<pc, exc, url, data, requests, pages, dirVars, pureVars>>

\* a variant that requests the start URL again while a page names a next one
NextPage_Restart ==
    /\ pc = "for" /\ idx > Len(ResultsOf(data[1]))
    /\ url' = IF Truthy(data[1].next) THEN Some(START_URL) ELSE data[1].next
    /\ pc' = "while"
    /\ UNCHANGED <<exc, data, idx, mapping, seen_ids, requests, pages,
                   dirVars, pureVars>>

\* line 68: url = data.get("next")
NextPage ==
    /\ pc = "for" /\ idx > Len(ResultsOf(data[1]))
    /\ url' = data[1].next
    /\ pc' = "while"
    /\ UNCHANGED <<exc, data, idx, mapping, seen_ids, requests, pages,
                   dirVars, pureVars>>

\* line 50 with a falsy url, then line 69
LoopExit ==
    /\ pc = "while" /\ ~Truthy(url)
    /\ pc' = "built"
    /\ UNCHANGED <<exc, url, data, idx, mapping, seen_ids, requests, pages,
                   dirVars, pureVars>>

----------------------------------------------------------------------------
(* Catalog entries and pages *)

sSCUS == <<"S","C","U","S">>
sSLUS == <<"S","L","U","S">>
s12345 == <<"1","2","3","4","5">>
s54321 == <<"5","4","3","2","1">>
sSCUS_12345 == FormatSerial(sSCUS, s12345)
sSLUS_54321 == FormatSerial(sSLUS, s54321)
sGame == <<"G","a","m","e">>
sDemo == <<"D","e","m","o">>
sAlpha == <<"A","l","p","h","a">>
sBeta == <<"B","e","t","a">>

Named(default) == Some([default_value |-> Some(default), translations |-> Nothing])

Entry(systems, content_type, t_type, t_num, title) ==
    [systems |-> systems, content_type |-> content_type,
     title_id_type |-> t_type, title_id_number |-> t_num,
     name |-> Named(title)]

PS2 == Some(<<"PlayStation", "PlayStation 2">>)
PS3 == Some(<<"PlayStation 3">>)

\* SCUS-12345 (number to be trimmed, type "Game" in mixed case) -> Alpha
eAlpha == Entry(PS2, Some(sGame), Some(sSCUS), Some(<<" ">> \o s12345), sAlpha)
\* the same serial with another title
eBeta == Entry(PS2, Some(sgame), Some(sSCUS), Some(s12345), sBeta)
\* the same serial with a blank title
eBlankTitle == Entry(PS2, Some(sgame), Some(sSCUS), Some(s12345), <<" ">>)
\* the same serial on another system
eOtherSystem == Entry(PS3, Some(sgame), Some(sSCUS), Some(s12345), sGame)
\* the same serial, not a game
eDemo == Entry(PS2, Some(sDemo), Some(sSCUS), Some(s12345), sDemo)
\* no number
eNoNumber == Entry(PS2, Some(sgame), Some(sSLUS), Nothing, sGame)
\* a blank type
eBlankType == Entry(PS2, Some(sgame), Some(<<" ">>), Some(s54321), sGame)
\* components the catalog does not keep to 4 letters and 5 digits
eOddSerial == Entry(PS2, Some(sgame), Some(<<"s","l">>), Some(<<"1">>), sGame)

BuildEntries == {eAlpha, eBeta, eBlankTitle, eOtherSystem, eDemo, eNoNumber,
                 eBlankType, eOddSerial}

InitBuild == /\ pc = "main" /\ exc = "" /\ mapping = <<>>
             /\ IdleBuild /\ IdleDir /\ IdlePure

NextBuild == \/ BuildEnter
             \/ FetchOk(BuildEntries)
             \/ FetchFail
             \/ ProcessEntry
             \/ NextPage
             \/ LoopExit

SpecBuild == InitBuild /\ [][NextBuild]_vars

----------------------------------------------------------------------------
(* rename_ps2_files: file names *)

\* the position of the last "." of name, 0 when it has none
LastDot(name) ==
    LET dots == {i \in 1..Len(name) : name[i] = "."}
    IN IF dots = {} THEN 0 ELSE Max(dots)

\* Path.suffix: from the last dot on, unless it leads or ends the name
Suffix(name) ==
    LET i == LastDot(name)
    IN IF 1 < i /\ i < Len(name) THEN SubSeq(name, i, Len(name)) ELSE <<>>

\* Path.stem
Stem(name) ==
    LET i == LastDot(name)
    IN IF 1 < i /\ i < Len(name) THEN SubSeq(name, 1, i - 1) ELSE name

\* where "$" matches: at the end, and before a newline that ends the string
DollarPositions(s) ==
    {Len(s)} \cup (IF s # <<>> /\ s[Len(s)] = "\n" THEN {Len(s) - 1} ELSE {})

\* the ends of the matches of \s*\(.*\)$ that begin at position i
SuffixMatchEnds(s, i) ==
    {e \in DollarPositions(s) :
        \E j \in i..(e - 1) :
            /\ \A k \in i..(j - 1) : s[k] \in Whitespace
            /\ s[j] = "("
            /\ s[e] = ")"
            /\ \A k \in (j + 1)..(e - 1) : s[k] # "\n"}

\* re.sub(r"\s*\(.*\)$", "", base_name): the leftmost match, greedy
StripParenSuffix(s) ==
    LET starts == {i \in 1..Len(s) : SuffixMatchEnds(s, i) # {}}
    IN IF starts = {} THEN s
       ELSE LET i == Min(starts)
                e == Max(SuffixMatchEnds(s, i))
            IN SubSeq(s, 1, i - 1) \o SubSeq(s, e + 1, Len(s))

\* re.match(r"^[A-Z]{4}-\d{5}$", code)
MatchesSerial(code) ==
    /\ 10 \in DollarPositions(code)
    /\ \A i \in 1..4 : code[i] \in UpperChars
    /\ code[5] = "-"
    /\ \A i \in 6..10 : code[i] \in DigitChars

\* Path.with_name raises ValueError for these names
InvalidName(name) ==
    \/ name = <<>>
    \/ name = <<".">>
    \/ \E i \in 1..Len(name) : name[i] = "/"

\* lines 87-89 for the file called name
NewName(m, name) ==
    sanitize_filename(m[StripParenSuffix(Stem(name))]) \o Suffix(name)

----------------------------------------------------------------------------
(* rename_ps2_files: the directory *)

IsFile(dir, name) == name \in DOMAIN dir /\ dir[name].kind = "file"
RegularFiles(dir) == {n \in DOMAIN dir : dir[n].kind = "file"}

Remove(dir, name) == [n \in DOMAIN dir \ {name} |-> dir[n]]

sDotDot == <<".", ".">>

\* whether os.rename(src, dst) can succeed: a target that is a directory
\* refuses, a target that is another file is replaced on POSIX and refuses on
\* Windows
CanRename(plat, dir, src, dst) ==
    /\ dst # sDotDot
    /\ IF dst \notin DOMAIN dir \/ dst = src THEN TRUE
       ELSE dir[dst].kind = "file" /\ plat = "posix"

\* a variant that leaves the file under its old name as well
Renamed_KeepSource(dir, src, dst) == SetItem(dir, dst, dir[src])

\* the directory after a successful os.rename(src, dst)
Renamed(dir, src, dst) ==
    IF dst = src THEN dir ELSE SetItem(Remove(dir, src), dst, dir[src])

\* the orders in which iterdir() may yield the names of S
Orders(S) ==
    {l \in [1..Cardinality(S) -> S] : \A i, j \in DOMAIN l : l[i] = l[j] => i = j}

----------------------------------------------------------------------------
(* rename_ps2_files: the pass *)

Current == listing[pos]
Code(name) == StripParenSuffix(Stem(name))
InLoop == pc = "file" /\ pos <= Len(listing)
Matching == IsFile(fs, Current) /\ MatchesSerial(Code(Current))

LogLine(result, new_name) ==
    [run |-> run, name |-> Current, code |-> Code(Current),
     result |-> result, new_name |-> new_name]

\* line 78: iterdir() lists the directory once, in any order
IterDir ==
    /\ pc = "rename"
    /\ listing' \in Orders(DOMAIN fs)
    /\ pos' = 1
    /\ fs0' = fs
    /\ pc' = "file"
    /\ UNCHANGED <<exc, mapping, platform, fs, log, run, buildVars, pureVars>>

\* lines 79-80 and 84-85: not a regular file, or no serial in its name
SkipEntry ==
    /\ InLoop /\ ~Matching
    /\ pos' = pos + 1
    /\ UNCHANGED <<pc, exc, mapping, platform, fs, fs0, listing, log, run,
                   buildVars, pureVars>>

\* lines 96-97: the serial is not a key of the mapping
NotFound ==
    /\ InLoop /\ Matching /\ Code(Current) \notin DOMAIN mapping
    /\ log' = Append(log, LogLine("notfound", <<>>))
    /\ pos' = pos + 1
    /\ UNCHANGED <<pc, exc, mapping, platform, fs, fs0, listing, run,
                   buildVars, pureVars>>

\* line 90: with_name raises ValueError outside the try statement
PathError ==
    /\ InLoop /\ Matching /\ Code(Current) \in DOMAIN mapping
    /\ InvalidName(NewName(mapping, Current))
    /\ pc' = "raised"
    /\ exc' = "ValueError"
    /\ UNCHANGED <<mapping, platform, fs, fs0, listing, pos, log, run,
                   buildVars, pureVars>>

\* lines 91-93: the rename succeeds
RenameOk ==
    /\ InLoop /\ Matching /\ Code(Current) \in DOMAIN mapping
    /\ LET new_name == NewName(mapping, Current)
       IN /\ ~InvalidName(new_name)
          /\ CanRename(platform, fs, Current, new_name)
          /\ fs' = Renamed(fs, Current, new_name)
          /\ log' = Append(log, LogLine("renamed", new_name))
    /\ pos' = pos + 1
    /\ UNCHANGED <<pc, exc, mapping, platform, fs0, listing, run,
                   buildVars, pureVars>>

\* lines 94-95: the rename raises (the target is taken, permission is
\* denied, ...) and the error is printed
RenameFail ==
    /\ InLoop /\ Matching /\ Code(Current) \in DOMAIN mapping
    /\ LET new_name == NewName(mapping, Current)
       IN /\ ~InvalidName(new_name)
          /\ log' = Append(log, LogLine("error", new_name))
    /\ pos' = pos + 1
    /\ UNCHANGED <<pc, exc, mapping, platform, fs, fs0, listing, run,
                   buildVars, pureVars>>

\* the for loop of line 78 is exhausted
ScanEnd ==
    /\ pc = "file" /\ pos > Len(listing)
    /\ pc' = "done"
    /\ UNCHANGED <<exc, mapping, platform, fs, fs0, listing, pos, log, run,
                   buildVars, pureVars>>

\* rename_ps2_files is called a second time with the same mapping
Rerun ==
    /\ pc = "done" /\ run = 1
    /\ run' = run + 1
    /\ pc' = "rename"
    /\ UNCHANGED <<exc, mapping, platform, fs, fs0, listing, pos, log,
                   buildVars, pureVars>>

RenameActions == \/ IterDir
                 \/ SkipEntry
                 \/ NotFound
                 \/ PathError
                 \/ RenameOk
                 \/ RenameFail
                 \/ ScanEnd

----------------------------------------------------------------------------
(* Directories and mappings for rename_ps2_files *)

sIso == <<".","i","s","o">>
sUSA == <<" ","(","U","S","A",")">>
\* "Ga:me", which sanitizes to "Game"
sGaMe == <<"G","a",":","m","e">>

nSerialIso == sSCUS_12345 \o sIso
nSerialUsaIso == sSCUS_12345 \o sUSA \o sIso
nSerialBare == sSCUS_12345
nOtherIso == sSLUS_54321 \o sIso
nGameIso == sGame \o sIso
nNotes == <<"n","o","t","e","s",".","t","x","t">>

File(name) == [name |-> name, kind |-> "file"]
Dir(name) == [name |-> name, kind |-> "dir"]

DirEntries == {File(nSerialIso), File(nSerialUsaIso), File(nSerialBare),
               File(nOtherIso), File(nGameIso), Dir(nSerialBare)}

\* a directory holding the entries S, each file identified by its first name
MakeDir(S) ==
    [n \in {e.name : e \in S} |->
        [kind |-> (CHOOSE e \in S : e.name = n).kind, id |-> n]]

Directories ==
    {MakeDir(S) : S \in {T \in SUBSET DirEntries :
        /\ Cardinality(T) <= MaxFiles
        /\ \A a, b \in T : a.name = b.name => a = b}}

Dict1(k, v) == SetItem(<<>>, k, v)
Dict2(k1, v1, k2, v2) == SetItem(Dict1(k1, v1), k2, v2)

RenameMappings ==
    {Dict1(sSCUS_12345, sGaMe),
     Dict1(sSCUS_12345, <<"?">>),
     Dict2(sSCUS_12345, sSLUS_54321, sSLUS_54321, sGaMe),
     Dict2(sSCUS_12345, sGaMe, sSLUS_54321, sGame)}

InitRename == /\ pc = "rename" /\ exc = ""
              /\ mapping \in RenameMappings
              /\ IdleBuild /\ IdlePure
              /\ platform \in {"posix", "nt"}
              /\ fs \in Directories /\ fs0 = fs
              /\ listing = <<>> /\ pos = 0 /\ log = <<>> /\ run = 1

NextRename == RenameActions \/ Rerun

SpecRename == InitRename /\ [][NextRename]_vars

----------------------------------------------------------------------------
(* main *)

\* line 100 returns the mapping, line 101 calls rename_ps2_files
MainCallRename ==
    /\ pc = "built"
    /\ pc' = "rename"
    /\ run' = 1
    /\ UNCHANGED <<exc, mapping, platform, fs, fs0, listing, pos, log,
                   buildVars, pureVars>>

\* SCUS-12345 -> "?", a title of illegal characters only
eQuestion == Entry(PS2, Some(sgame), Some(sSCUS), Some(s12345), <<"?">>)
MainEntries == {eAlpha, eQuestion}

MainDirectories ==
    {MakeDir({File(nSerialUsaIso), File(nNotes)}),
     MakeDir({File(nSerialBare), File(nOtherIso)})}

Init == /\ pc = "main" /\ exc = "" /\ mapping = <<>>
        /\ IdleBuild /\ IdlePure
        /\ platform \in {"posix", "nt"}
        /\ fs \in MainDirectories /\ fs0 = fs
        /\ listing = <<>> /\ pos = 0 /\ log = <<>> /\ run = 0

Next == \/ BuildEnter
        \/ FetchOk(MainEntries)
        \/ FetchFail
        \/ ProcessEntry
        \/ NextPage
        \/ LoopExit
        \/ MainCallRename
        \/ RenameActions

Spec == Init /\ [][Next]_vars

\* the steps of build_ps2_title_mapping
BuildStep == \/ BuildEnter
             \/ FetchOk(MainEntries)
             \/ FetchFail
             \/ ProcessEntry
             \/ NextPage
             \/ LoopExit

\* the interpreter runs the one thread of the program on: a step of
\* build_ps2_title_mapping that can be taken is taken
FairSpec == Spec /\ WF_vars(BuildStep)

----------------------------------------------------------------------------
(* Properties of sanitize_filename *)

\* the members of the set of integers S, ascending
Ascending(S) ==
    [j \in 1..Cardinality(S) |->
        CHOOSE i \in S : Cardinality({m \in S : m <= i}) = j]

\* the legal characters of s lying between its first and its last legal
\* non-blank character, in their order
KeptIndices(s) ==
    LET legal == {i \in 1..Len(s) : s[i] \notin IllegalChars}
        solid == {i \in legal : s[i] \notin Whitespace}
    IN IF solid = {} THEN {}
       ELSE {i \in legal : Min(solid) <= i /\ i <= Max(solid)}
SanitizeReference(s) ==
    LET keep == Ascending(KeptIndices(s))
    IN [j \in 1..Len(keep) |-> s[keep[j]]]

\* C9: every result of sanitize_filename is its input without the nine
\* characters and without surrounding whitespace, all other characters kept in
\* order; it holds none of the nine characters, and sanitizing it again
\* returns it unchanged.
C9_SanitizeRemovesAndTrims ==
    \A k \in 1..Len(ret) :
        LET input == IF k = 1 THEN arg ELSE ret[k - 1]
        IN /\ pc \in {"sanitize", "returned"}
           /\ ret[k] = SanitizeReference(input)
           /\ \A i \in 1..Len(ret[k]) : ret[k][i] \notin IllegalChars
           /\ (k > 1 => ret[k] = ret[k - 1])

\* the literal case: illegal characters removed, the two interior blanks kept
C9_Witness ==
    /\ pc = "returned"
    /\ arg = sMyGameTitle
    /\ ret = <<sMyGameTitleClean, sMyGameTitleClean>>

----------------------------------------------------------------------------
(* Properties of pick_title *)

\* s holds the letters of "english" in a row, each in either case
HoldsEnglish(s) ==
    \E i \in 0..(Len(s) - 7) :
        \A j \in 1..7 :
            \E k \in 1..26 : /\ LowerSeq[k] = sEnglish[j]
                             /\ s[i + j] \in {LowerSeq[k], UpperSeq[k]}

\* the translations of a name structure, none when it or they are missing
TranslationsOf(entry) ==
    IF entry.name = Nothing THEN <<>>
    ELSE IF entry.name[1].translations = Nothing THEN <<>>
    ELSE entry.name[1].translations[1]
DefaultOf(entry) ==
    IF entry.name = Nothing THEN <<>>
    ELSE IF entry.name[1].default_value = Nothing THEN <<>>
    ELSE entry.name[1].default_value[1]

Qualifies(tr) ==
    /\ tr.language # Nothing /\ HoldsEnglish(tr.language[1])
    /\ tr.value # Nothing /\ Strip(tr.value[1]) # <<>>

PickReference(entry) ==
    LET trs == TranslationsOf(entry)
        Q == {i \in 1..Len(trs) : Qualifies(trs[i])}
    IN IF Q = {} THEN Strip(DefaultOf(entry))
       ELSE Strip(trs[Min(Q)].value[1])

\* C8: pick_title returns the trimmed value of the first translation whose
\* language holds "english" in any case and whose trimmed value is not empty,
\* and the trimmed default title (possibly empty) when there is none.
C8_PickTitleFirstEnglish ==
    pc = "returned" /\ arg # Nothing /\ Len(ret) = 1
        => ret[1] = PickReference(arg)

\* French X, then English (US) Y, default Z: Y is returned
C8_Witness ==
    /\ pc = "returned" /\ arg # Nothing /\ Len(ret) = 1
    /\ arg.name # Nothing
    /\ arg.name[1].default_value = Some(<<" ","Z"," ">>)
    /\ arg.name[1].translations =
          Some(<<[language |-> Some(sFrench), value |-> Some(<<"X">>)],
                 [language |-> Some(sEnglishUS),
                  value |-> Some(<<" ","Y"," ">>)]>>)
    /\ ret = << <<"Y">> >>

----------------------------------------------------------------------------
(* Properties of build_ps2_title_mapping *)

Last(q) == q[Len(q)]

RECURSIVE Flatten(_)
Flatten(ps) == IF ps = <<>> THEN <<>>
               ELSE ResultsOf(Head(ps)) \o Flatten(Tail(ps))

\* the entries the loop has gone through, in the order the catalog gave them
Processed ==
    IF pc = "for"
    THEN Flatten(SubSeq(pages, 1, Len(pages) - 1))
         \o SubSeq(ResultsOf(Last(pages)), 1, idx - 1)
    ELSE Flatten(pages)

TextOf(opt) == IF opt = Nothing THEN <<>> ELSE opt[1]

\* a and b are the same word but for the case of their letters
SameIgnoringCase(a, b) ==
    /\ Len(a) = Len(b)
    /\ \A i \in 1..Len(a) :
          \/ a[i] = b[i]
          \/ \E k \in 1..26 : {a[i], b[i]} = {LowerSeq[k], UpperSeq[k]}

SerialOf(e) ==
    Strip(TextOf(e.title_id_type)) \o <<"-">> \o Strip(TextOf(e.title_id_number))

Accepted(e) ==
    /\ e.systems # Nothing
    /\ "PlayStation 2" \in {e.systems[1][i] : i \in 1..Len(e.systems[1])}
    /\ SameIgnoringCase(TextOf(e.content_type), sgame)
    /\ Strip(TextOf(e.title_id_type)) # <<>>
    /\ Strip(TextOf(e.title_id_number)) # <<>>
    /\ PickReference(e) # <<>>

\* the reference mapping of a sequence of entries: first accepted entry wins
ReferenceKeys(es) == {SerialOf(es[i]) : i \in {j \in 1..Len(es) : Accepted(es[j])}}
ReferenceTitle(es, k) ==
    PickReference(es[Min({i \in 1..Len(es) :
                              Accepted(es[i]) /\ SerialOf(es[i]) = k})])

\* C4: the mapping holds exactly the serials of the accepted entries
\* (PlayStation 2, a game, both components non-blank, a non-empty title),
\* each with the title of the first such entry in the order of the catalog;
\* this holds after every entry and of the mapping that is returned.
C4_MappingIsFirstSeenReference ==
    pc \in {"for", "while", "built"} =>
        /\ DOMAIN mapping = ReferenceKeys(Processed)
        /\ \A k \in DOMAIN mapping : mapping[k] = ReferenceTitle(Processed, k)

\* Alpha on the first page, Beta with the same serial on the second
C4_Witness ==
    /\ pc = "built"
    /\ Len(pages) = 2
    /\ ResultsOf(pages[1]) = <<eAlpha>>
    /\ ResultsOf(pages[2]) = <<eBeta>>
    /\ mapping = Dict1(sSCUS_12345, sAlpha)

\* 4 uppercase letters, a hyphen, 5 digits
SerialSyntax(k) ==
    /\ Len(k) = 10
    /\ \A i \in 1..4 : k[i] \in UpperChars
    /\ k[5] = "-"
    /\ \A i \in 6..10 : k[i] \in DigitChars

\* C3 as stated: every key is 4 uppercase letters, a hyphen and 5 digits,
\* and its title is not empty.
C3_KeysAreSerialCodes ==
    \A k \in DOMAIN mapping : SerialSyntax(k) /\ mapping[k] # <<>>

\* k is T-N with T and N non-empty and free of surrounding whitespace
JoinedComponents(k) ==
    \E i \in 2..(Len(k) - 1) :
        /\ k[i] = "-"
        /\ {k[1], k[i - 1], k[i + 1], k[Len(k)]} \cap Whitespace = {}

\* C3 amended: every key is a type and a number joined by a hyphen, both
\* non-empty and trimmed (whatever their letters and digits), and its title is
\* a non-empty trimmed string.
C3_KeysAreJoinedComponents ==
    \A k \in DOMAIN mapping :
        /\ JoinedComponents(k)
        /\ mapping[k] # <<>>
        /\ Strip(mapping[k]) = mapping[k]

\* a trimmed number next to components of 2 letters and 1 digit
C3_Witness ==
    /\ pc = "built"
    /\ Flatten(pages) = <<eAlpha, eOddSerial>>
    /\ mapping = Dict2(sSCUS_12345, sAlpha, <<"s","l","-","1">>, sGame)

----------------------------------------------------------------------------
(* Properties of main *)

\* every page but the last names a next URL, the last names none
ChainComplete ==
    /\ pages # <<>>
    /\ Len(requests) = Len(pages)
    /\ \A k \in 1..(Len(pages) - 1) : Truthy(pages[k].next)
    /\ ~Truthy(Last(pages).next)

Renaming == pc \in {"rename", "file", "done"} \/ exc = "ValueError"

\* C2: when fetch_json raises on any page, the run is over: the exception is
\* not caught, rename_ps2_files is never entered, and the directory is as it
\* was, whatever the entries collected before.
C2_FetchFailureAbortsRun ==
    exc \in FetchErrors \cup {"TypeError"} =>
        /\ pc = "raised"
        /\ run = 0 /\ listing = <<>> /\ log = <<>>
        /\ fs = fs0

\* the second request fails after the first page gave a title for a file
C2_Witness ==
    /\ exc \in FetchErrors
    /\ Len(requests) = 2 /\ Len(pages) = 1
    /\ mapping = Dict1(sSCUS_12345, sAlpha)
    /\ nSerialUsaIso \in DOMAIN fs

\* the requests made so far follow the chain of next fields, and nothing is
\* renamed before the chain has been followed to its end
RequestsFollowNext ==
    /\ requests # <<>> => requests[1] = START_URL
    /\ Len(pages) <= Len(requests) /\ Len(requests) <= Len(pages) + 1
    /\ \A k \in 2..Len(requests) :
          Truthy(pages[k - 1].next) /\ requests[k] = pages[k - 1].next[1]
    /\ pc = "built" \/ Renaming => ChainComplete
    /\ (Renaming \/ log # <<>> \/ fs # fs0) =>
          /\ idx > Len(ResultsOf(Last(pages)))
          /\ DOMAIN mapping = ReferenceKeys(Flatten(pages))

\* the model stops a catalog that goes on after MaxRequests requests
Capped == pc = "while" /\ Truthy(url) /\ Len(requests) >= MaxRequests

\* C7: the first request is the start URL, every later one is the URL the
\* page before it names as next, no request follows a page that names none,
\* the rename pass begins only when the last page has been processed, and
\* build_ps2_title_mapping comes to its end (it returns or raises).
C7_RequestsFollowNextAndEnd ==
    /\ []RequestsFollowNext
    /\ <>(pc \notin {"main", "while", "for"} \/ Capped)

\* two pages, then a rename
C7_Witness ==
    /\ pc = "done"
    /\ requests = <<START_URL, "page2">>
    /\ \E i \in 1..Len(log) : log[i].result = "renamed"

----------------------------------------------------------------------------
(* Properties of rename_ps2_files *)

Entered == pc \in {"file", "done"} \/ exc = "ValueError"
Ended == pc = "done" \/ exc = "ValueError"

\* the lines of pass r that report a rename or a failed rename
Attempts(r) ==
    {i \in 1..Len(log) : log[i].run = r /\ log[i].result \in {"renamed", "error"}}

\* C1 as stated: no failure on one file ends the pass: nothing is raised out
\* of rename_ps2_files, and the pass ends with every entry gone through.
C1_OneBadFileNeverStopsBatch ==
    Entered => /\ exc = ""
               /\ (pc = "done" => pos = Len(listing) + 1)

\* C10 as stated: the directory holds as many regular files after (and
\* during) a pass as before it, and each of them is one of the files it held.
C10_NoFileLost ==
    Entered =>
        /\ Cardinality(RegularFiles(fs)) = Cardinality(RegularFiles(fs0))
        /\ {fs[n].id : n \in RegularFiles(fs)}
              = {fs0[n].id : n \in RegularFiles(fs0)}

\* the candidate code of a file name: the name up to its extension, without
\* a trailing parenthesized part
Eligible(dir, n) ==
    /\ dir[n].kind = "file"
    /\ SerialSyntax(Code(n))
    /\ Code(n) \in DOMAIN mapping

\* C6 as stated: when a pass is over, the entries it tried to rename are
\* exactly the regular files whose candidate code is a serial and a key of the
\* mapping, each to its sanitized title followed by its extension; every
\* other entry is still there under its name.
C6_RenamesExactlyTheMappedSerials ==
    Ended =>
        /\ \A n \in DOMAIN fs0 :
              (\E i \in Attempts(run) : log[i].name = n) <=> Eligible(fs0, n)
        /\ \A i \in Attempts(run) :
              log[i].new_name
                  = SanitizeReference(mapping[log[i].code]) \o Suffix(log[i].name)
        /\ \A n \in DOMAIN fs0 : ~Eligible(fs0, n) => n \in DOMAIN fs

\* the first pass ended with every rename it tried done
CleanFirstPass == run = 2 /\ \A i \in Attempts(1) : log[i].result = "renamed"

StillMapped(name) == SerialSyntax(Code(name)) /\ Code(name) \in DOMAIN mapping

====
